---- MODULE Spec2Model ----
(***************************************************************************)
(* dnscache: a caching DNS forwarding proxy.                               *)
(*                                                                         *)
(* The model follows src/unnamed/part_001 (the multi-listener revision of  *)
(* cache_server.go): the record cache (DNSCache, DNSCacheItem), the key    *)
(* rule (getKey), the upstream clients (DNSServer) and the per-request     *)
(* dispatch (CacheServer.processDNSMsg), run by concurrent handlers.       *)
(*                                                                         *)
(* Strings are sequences of one-character strings, so that prefix tests,   *)
(* slicing and formatting are computed as the code computes them.          *)
(* The clock counts whole seconds: time.Now() is `now`, and a TTL of S     *)
(* seconds (time.Duration(Ttl) * time.Second) is S ticks.                  *)
(* A *dns.Msg is a pointer: the message a handler's successful Exchange    *)
(* returns lives in the heap `msgs` under that handler's number, and the   *)
(* cache and the handlers' locals hold the pointer, not a copy.            *)
(***************************************************************************)
EXTENDS Integers, Sequences, FiniteSets, TLC

\* ------------------------------------------------------------- bounds
NumHandlers == 2
MaxTime == 2
MaxTTL == 1
NumUpstreams == 2
MaxInstances == 2
MaxListen == 2

\* ------------------------------------------------- program constants
TypeA == 1
TypeAAAA == 28

Handlers == 1..NumHandlers
NoHolder == 0
Nil == 0

VARIABLES
  servers,   \* CacheServer.servers: the upstream clients, in configured order
  now,       \* time.Now(), in seconds
  cache,     \* DNSCache.cache: key -> [timeOut, resp]
  lock,      \* DNSCache's sync.Mutex: the handler holding it, or NoHolder
  msgs,      \* heap of reply messages: pointer -> message, or Nil
  pc,        \* each handler's position in processDNSMsg
  req,       \* each handler's query
  resp,      \* each handler's local resp: a pointer, or Nil
  idx,       \* each handler's position in `for _, server := range cs.servers`
  item,      \* each handler's local item in cacheResponse, or Nil
  wire,      \* what each handler wrote with w.WriteMsg, in order
  log,       \* history: each handler's Exchange calls, [srv, ok], in order
  mapOps,    \* history: each handler's operations on the map, in order
  itemAt,    \* history: the instant NewDNSCacheItem read for each handler
  probe,     \* history of a repeated cacheResponse call: [calls, once, firstAt]
  boot       \* startDNSCacheServer and CacheServer.start: the main goroutine,
             \* the library's default mux and the listeners

vars == <<servers, now, cache, lock, msgs, pc, req, resp, idx, item, wire,
          log, mapOps, itemAt, probe, boot>>

\* ------------------------------------------------------------ strings
HasPrefix(s, p) == Len(s) >= Len(p) /\ SubSeq(s, 1, Len(p)) = p

Digit(d) == CASE d = 0 -> "0" [] d = 1 -> "1" [] d = 2 -> "2" [] d = 3 -> "3"
              [] d = 4 -> "4" [] d = 5 -> "5" [] d = 6 -> "6" [] d = 7 -> "7"
              [] d = 8 -> "8" [] d = 9 -> "9"

RECURSIVE FormatInt(_)
FormatInt(n) == IF n < 10 THEN <<Digit(n)>>
                ELSE FormatInt(n \div 10) \o <<Digit(n % 10)>>

\* ------------------------------------------------------- address parsing
UdpPrefix == <<"u", "d", "p", ":">>
TcpPrefix == <<"t", "c", "p", ":">>

parseListenAddr(listenAddr) ==
  IF HasPrefix(listenAddr, UdpPrefix)
  THEN [proto |-> "udp", addr |-> SubSeq(listenAddr, 5, Len(listenAddr)), err |-> FALSE]
  ELSE IF HasPrefix(listenAddr, TcpPrefix)
  THEN [proto |-> "tcp", addr |-> SubSeq(listenAddr, 5, Len(listenAddr)), err |-> FALSE]
  ELSE [proto |-> "udp", addr |-> listenAddr, err |-> FALSE]

parseDNSServerAddr(dnsServerAddr) == parseListenAddr(dnsServerAddr)

\* The client of one upstream, or the error of its address.
NewDNSServer(server) ==
  LET p == parseDNSServerAddr(server)
  IN  IF p.err THEN [err |-> TRUE, net |-> "", addr |-> <<>>]
      ELSE [err |-> FALSE, net |-> p.proto, addr |-> p.addr]

\* The upstream list of a new CacheServer: one client per configured string,
\* in configured order, an unparsable one left out.
RECURSIVE NewCacheServer(_)
NewCacheServer(srvs) ==
  IF srvs = <<>> THEN <<>>
  ELSE LET d == NewDNSServer(Head(srvs))
       IN  (IF d.err THEN <<>> ELSE <<[net |-> d.net, addr |-> d.addr]>>)
           \o NewCacheServer(Tail(srvs))

\* ---------------------------------------------------------------- inputs
NameA == <<"a", ".">>

UpstreamString(i) ==
  IF i % 3 = 1 THEN UdpPrefix \o <<"u">> \o FormatInt(i)
  ELSE IF i % 3 = 2 THEN TcpPrefix \o <<"u">> \o FormatInt(i)
  ELSE <<"u">> \o FormatInt(i)

\* The configured upstream lists: the first n upstream strings, n = 0..NumUpstreams.
ServerConfigs == {[i \in 1..n |-> UpstreamString(i)] : n \in 0..NumUpstreams}

QuestionLists ==
  { <<>>,
    <<[Name |-> NameA, Qtype |-> TypeA]>>,
    <<[Name |-> NameA, Qtype |-> TypeAAAA]>>,
    <<[Name |-> NameA, Qtype |-> 15]>>,
    <<[Name |-> NameA, Qtype |-> TypeA], [Name |-> NameA, Qtype |-> TypeAAAA]>> }

TTLs == 0..MaxTTL

\* The answer sections an upstream may return: no record, one record, or two
\* records of which the second has the smaller TTL.
AnswerLists ==
  {<<>>} \cup {<<[Ttl |-> t]>> : t \in TTLs}
         \cup {<<[Ttl |-> x[1]], [Ttl |-> x[2]]>> :
                   x \in {y \in TTLs \X TTLs : y[2] < y[1]}}

\* ------------------------------------------------------------ the cache
NoItem == [timeOut |-> -1, resp |-> Nil]

\* Mutant: the question type left out of the key.
getKey_nameOnly(q) ==
  IF Len(q.Question) = 1
     /\ (q.Question[1].Qtype = TypeAAAA \/ q.Question[1].Qtype = TypeA)
  THEN [key |-> q.Question[1].Name, err |-> FALSE]
  ELSE [key |-> <<>>, err |-> TRUE]

\* Mutant: the test of the question type left out.
getKey_anyType(q) ==
  IF Len(q.Question) = 1
  THEN [key |-> q.Question[1].Name \o <<"-">> \o FormatInt(q.Question[1].Qtype),
        err |-> FALSE]
  ELSE [key |-> <<>>, err |-> TRUE]

getKey(q) ==
  IF Len(q.Question) = 1
     /\ (q.Question[1].Qtype = TypeAAAA \/ q.Question[1].Qtype = TypeA)
  THEN [key |-> q.Question[1].Name \o <<"-">> \o FormatInt(q.Question[1].Qtype),
        err |-> FALSE]
  ELSE [key |-> <<>>, err |-> TRUE]

\* Mutant: the TTL of the last answer record instead of the first.
NewDNSCacheItem_lastTtl(p) ==
  [timeOut |-> now + msgs[p].Answer[Len(msgs[p].Answer)].Ttl, resp |-> p]

\* timeout := time.Now().Add(Ttl of the first answer, in seconds)
NewDNSCacheItem(p) ==
  [timeOut |-> now + msgs[p].Answer[1].Ttl, resp |-> p]

\* time.Now().After(dci.timeOut)
isTimeout(it) == now > it.timeOut

\* Mutant: a Lock that does not wait.
CanLock_always(h) == TRUE

\* sync.Mutex.Lock returns only when nobody holds the mutex.
CanLock(h) == lock = NoHolder

\* Mutant: the loop stops one server early.
LoopPc_skipLast(i) == IF i < Len(servers) THEN "exchange" ELSE "failed"

\* The position after the range loop reaches index i.
LoopPc(i) == IF i <= Len(servers) THEN "exchange" ELSE "failed"

\* Mutant: the list walked from its end.
ServerAt_reversed(i) == servers[Len(servers) + 1 - i]

\* The i-th client of `for _, server := range cs.servers`.
ServerAt(i) == servers[i]

\* The queries a requester may send; the h-th request carries transaction id h.
Queries == [Id : Handlers, Question : QuestionLists]

\* The keys of the map: those of the queries that have one.
Keys == {getKey(q).key : q \in {r \in Queries : ~getKey(r).err}}

NoMsg == [Id |-> 0, Question |-> <<>>, Answer |-> <<>>, From |-> <<>>]

Has(k) == cache[k] # NoItem

NoProbe == [calls |-> 0, once |-> <<>>, firstAt |-> -1]

\* The start-up state before main runs, for configuration cfg.
NewBoot(cfg) ==
  [config |-> cfg,          \* DNSCacheConfig.Caches
   pc |-> "main",           \* where the main goroutine is
   inst |-> 1,              \* index of `for _, cache := range config.Caches`
   ep |-> 1,                \* index of `for _, listenAddr := range cs.listenAddrs`
   built |-> <<>>,          \* the CacheServers constructed: their upstream lists
   mux |-> 0,               \* dns.DefaultServeMux: the instance whose
                            \* processDNSMsg is registered for ".", or 0
   cur |-> [proto |-> "", addr |-> <<>>],  \* the listener being started
   listeners |-> {},        \* the endpoints that are bound and serving
   tries |-> <<>>,          \* history: the ListenAndServe calls, in order
   err |-> "",              \* the error startDNSCacheServer returned
   served |-> {}]           \* history: which handler served a query, per endpoint

NoBoot == NewBoot(<<>>)

\* Mutant: the deferred Unlock left out.
AfterUnlock_keep(h) == lock

\* sync.Mutex.Unlock: the holder after handler h's deferred dc.Unlock().
AfterUnlock(h) == NoHolder

\* Mutant: the hit branch left out, every query forwarded.
AfterFind_noHit(h) == LoopPc(1)

\* processDNSMsg after findResponse returned: err == nil goes to the hit
\* branch, anything else to the range loop.
AfterFind(h) == IF resp[h] # Nil THEN "setId" ELSE LoopPc(1)

\* ------------------------------------------------------------------ Init
Init ==
  /\ servers \in {NewCacheServer(c) : c \in ServerConfigs}
  /\ now = 0
  /\ cache = [k \in Keys |-> NoItem]
  /\ lock = NoHolder
  /\ msgs = [p \in Handlers |-> NoMsg]
  /\ pc = [h \in Handlers |-> "idle"]
  /\ req = [h \in Handlers |-> [Id |-> 0, Question |-> <<>>]]
  /\ resp = [h \in Handlers |-> Nil]
  /\ idx = [h \in Handlers |-> 1]
  /\ item = [h \in Handlers |-> NoItem]
  /\ wire = [h \in Handlers |-> <<>>]
  /\ log = [h \in Handlers |-> <<>>]
  /\ mapOps = [h \in Handlers |-> <<>>]
  /\ itemAt = [h \in Handlers |-> -1]
  /\ probe = NoProbe
  /\ boot = NoBoot

\* --------------------------------------------------------------- actions
\* Mutant: a sweeper that removes the expired entries when the clock moves.
Tick_sweep ==
  /\ now < MaxTime
  /\ now' = now + 1
  /\ cache' = [k \in Keys |-> IF Has(k) /\ now + 1 > cache[k].timeOut
                               THEN NoItem ELSE cache[k]]
  /\ UNCHANGED <<boot, probe, servers, lock, msgs, pc, req, resp, idx, item, wire,
                 log, mapOps, itemAt>>

\* The clock advances by one second.
Tick ==
  /\ now < MaxTime
  /\ now' = now + 1
  /\ UNCHANGED <<boot, probe, servers, cache, lock, msgs, pc, req, resp, idx, item, wire,
                 log, mapOps, itemAt>>

\* The listener hands query q to a new handler; handlers are numbered in the
\* order their queries arrive.
Receive(h, ql) ==
  /\ pc[h] = "idle"
  /\ \A g \in Handlers : g < h => pc[g] # "idle"
  /\ req' = [req EXCEPT ![h] = [Id |-> h, Question |-> ql]]
  /\ pc' = [pc EXCEPT ![h] = "find"]
  /\ UNCHANGED <<boot, probe, servers, now, cache, lock, msgs, resp, idx, item, wire,
                 log, mapOps, itemAt>>

\* findResponse: the query has no key; return the error.
FindNoKey(h) ==
  /\ pc[h] = "find"
  /\ getKey(req[h]).err
  /\ pc' = [pc EXCEPT ![h] = LoopPc(1)]
  /\ UNCHANGED <<boot, probe, servers, now, cache, lock, msgs, req, resp, idx, item, wire,
                 log, mapOps, itemAt>>

\* findResponse: the query has a key; dc.Lock().
FindLock(h) ==
  /\ pc[h] = "find"
  /\ ~getKey(req[h]).err
  /\ CanLock(h)
  /\ lock' = h
  /\ pc' = [pc EXCEPT ![h] = "findMap"]
  /\ UNCHANGED <<boot, probe, servers, now, cache, msgs, req, resp, idx, item, wire,
                 log, mapOps, itemAt>>

\* findResponse: the lookup, the expiry test and the delete of an expired item.
FindLookup(h) ==
  LET key == getKey(req[h]).key
      it == cache[key]
      hit == Has(key) /\ ~isTimeout(it)
      del == Has(key) /\ isTimeout(it)
  IN  /\ pc[h] = "findMap"
      /\ cache' = IF del THEN [cache EXCEPT ![key] = NoItem] ELSE cache
      /\ resp' = [resp EXCEPT ![h] = IF hit THEN it.resp ELSE Nil]
      /\ mapOps' = [mapOps EXCEPT ![h] = Append(@,
            [op |-> "find", key |-> key, at |-> now, holder |-> lock,
             seen |-> it, hit |-> hit, del |-> del,
             ret |-> IF hit THEN it.resp ELSE Nil, put |-> NoItem])]
      /\ pc' = [pc EXCEPT ![h] = "findRet"]
      /\ UNCHANGED <<boot, probe, servers, now, lock, msgs, req, idx, item, wire, log, itemAt>>

\* Mutant: the mutex released on the hit path only.
FindUnlock_hitOnly(h) ==
  /\ pc[h] = "findRet"
  /\ lock' = IF resp[h] # Nil THEN AfterUnlock(h) ELSE lock
  /\ pc' = [pc EXCEPT ![h] = AfterFind(h)]
  /\ UNCHANGED <<boot, probe, servers, now, cache, msgs, req, resp, idx, item, wire,
                 log, mapOps, itemAt>>

\* findResponse returns: the deferred dc.Unlock(), then the branch on err.
FindUnlock(h) ==
  /\ pc[h] = "findRet"
  /\ lock' = AfterUnlock(h)
  /\ pc' = [pc EXCEPT ![h] = AfterFind(h)]
  /\ UNCHANGED <<boot, probe, servers, now, cache, msgs, req, resp, idx, item, wire,
                 log, mapOps, itemAt>>

\* Mutant: the hit branch also drops the answers of the shared message.
HitSetId_dropAnswer(h) ==
  /\ pc[h] = "setId"
  /\ msgs' = [msgs EXCEPT ![resp[h]].Id = req[h].Id, ![resp[h]].Answer = <<>>]
  /\ pc' = [pc EXCEPT ![h] = "hitWrite"]
  /\ UNCHANGED <<boot, probe, servers, now, cache, lock, req, resp, idx, item, wire,
                 log, mapOps, itemAt>>

\* Cache hit: resp.Id = req.Id, on the message the cache item points to.
HitSetId(h) ==
  /\ pc[h] = "setId"
  /\ msgs' = [msgs EXCEPT ![resp[h]].Id = req[h].Id]
  /\ pc' = [pc EXCEPT ![h] = "hitWrite"]
  /\ UNCHANGED <<boot, probe, servers, now, cache, lock, req, resp, idx, item, wire,
                 log, mapOps, itemAt>>

\* Cache hit: w.WriteMsg(resp) packs the message as it is now; return.
HitWrite(h) ==
  /\ pc[h] = "hitWrite"
  /\ wire' = [wire EXCEPT ![h] = Append(@, [ptr |-> resp[h], msg |-> msgs[resp[h]]])]
  /\ pc' = [pc EXCEPT ![h] = "doneHit"]
  /\ UNCHANGED <<boot, probe, servers, now, cache, lock, msgs, req, resp, idx, item,
                 log, mapOps, itemAt>>

\* server.Exchange(req) returns a reply and no error: a new message that
\* carries the query's id and question and the upstream's answers.
ExchangeOk(h, ans) ==
  /\ pc[h] = "exchange"
  /\ msgs' = [msgs EXCEPT ![h] = [Id |-> req[h].Id, Question |-> req[h].Question,
                                  Answer |-> ans, From |-> ServerAt(idx[h]).addr]]
  /\ resp' = [resp EXCEPT ![h] = h]
  /\ log' = [log EXCEPT ![h] = Append(@, [srv |-> ServerAt(idx[h]).addr, ok |-> TRUE])]
  /\ pc' = [pc EXCEPT ![h] = "cache"]
  /\ UNCHANGED <<boot, probe, servers, now, cache, lock, req, idx, item, wire, mapOps, itemAt>>

\* server.Exchange(req) returns an error: on to the next server.
ExchangeErr(h) ==
  /\ pc[h] = "exchange"
  /\ log' = [log EXCEPT ![h] = Append(@, [srv |-> ServerAt(idx[h]).addr, ok |-> FALSE])]
  /\ idx' = [idx EXCEPT ![h] = @ + 1]
  /\ pc' = [pc EXCEPT ![h] = LoopPc(idx[h] + 1)]
  /\ UNCHANGED <<boot, probe, servers, now, cache, lock, msgs, req, resp, item, wire,
                 mapOps, itemAt>>

\* Mutant: the test of the key's error left out.
Cacheable_noKeyTest(q, p) == Len(msgs[p].Answer) > 0

\* Whether cacheResponse(req, resp) stores: the reply has an answer and the
\* query has a key.
Cacheable(q, p) == Len(msgs[p].Answer) > 0 /\ ~getKey(q).err

\* cacheResponse: nothing to store; return.
CacheSkip(h) ==
  /\ pc[h] = "cache"
  /\ ~Cacheable(req[h], resp[h])
  /\ pc' = [pc EXCEPT ![h] = "fwdWrite"]
  /\ UNCHANGED <<boot, probe, servers, now, cache, lock, msgs, req, resp, idx, item, wire,
                 log, mapOps, itemAt>>

\* cacheResponse: item := NewDNSCacheItem(resp), before the lock is taken.
CacheNewItem(h) ==
  /\ pc[h] = "cache"
  /\ Cacheable(req[h], resp[h])
  /\ item' = [item EXCEPT ![h] = NewDNSCacheItem(resp[h])]
  /\ itemAt' = [itemAt EXCEPT ![h] = now]
  /\ pc' = [pc EXCEPT ![h] = "cacheLock"]
  /\ UNCHANGED <<boot, probe, servers, now, cache, lock, msgs, req, resp, idx, wire,
                 log, mapOps>>

\* cacheResponse: dc.Lock().
CacheLock(h) ==
  /\ pc[h] = "cacheLock"
  /\ CanLock(h)
  /\ lock' = h
  /\ pc' = [pc EXCEPT ![h] = "cacheMap"]
  /\ UNCHANGED <<boot, probe, servers, now, cache, msgs, req, resp, idx, item, wire,
                 log, mapOps, itemAt>>

\* Mutant: the key's entry kept when there is one.
Assign_ifAbsent(key, it) == IF Has(key) THEN cache ELSE [cache EXCEPT ![key] = it]

\* Mutant: the reply replaced, the later of the two expiries kept.
Assign_keepLater(key, it) ==
  [cache EXCEPT ![key] = IF Has(key) /\ cache[key].timeOut > it.timeOut
                         THEN [timeOut |-> cache[key].timeOut, resp |-> it.resp]
                         ELSE it]

\* The map after dc.cache[key] = item.
Assign(key, it) == [cache EXCEPT ![key] = it]

\* cacheResponse: dc.cache[key] = item.
CacheInsert(h) ==
  LET key == getKey(req[h]).key
  IN  /\ pc[h] = "cacheMap"
      /\ cache' = Assign(key, item[h])
      /\ mapOps' = [mapOps EXCEPT ![h] = Append(@,
            [op |-> "store", key |-> key, at |-> now, holder |-> lock,
             seen |-> cache[key], hit |-> FALSE, del |-> FALSE, ret |-> Nil,
             put |-> item[h]])]
      /\ pc' = [pc EXCEPT ![h] = "cacheRet"]
      /\ UNCHANGED <<boot, probe, servers, now, lock, msgs, req, resp, idx, item, wire,
                     log, itemAt>>

\* cacheResponse returns: the deferred dc.Unlock().
CacheUnlock(h) ==
  /\ pc[h] = "cacheRet"
  /\ lock' = AfterUnlock(h)
  /\ pc' = [pc EXCEPT ![h] = "fwdWrite"]
  /\ UNCHANGED <<boot, probe, servers, now, cache, msgs, req, resp, idx, item, wire,
                 log, mapOps, itemAt>>

\* Forward success: w.WriteMsg(resp) packs the message as it is now; return.
FwdWrite(h) ==
  /\ pc[h] = "fwdWrite"
  /\ wire' = [wire EXCEPT ![h] = Append(@, [ptr |-> resp[h], msg |-> msgs[resp[h]]])]
  /\ pc' = [pc EXCEPT ![h] = "doneFwd"]
  /\ UNCHANGED <<boot, probe, servers, now, cache, lock, msgs, req, resp, idx, item,
                 log, mapOps, itemAt>>

Next ==
  \/ Tick
  \/ \E h \in Handlers, ql \in QuestionLists : Receive(h, ql)
  \/ \E h \in Handlers : FindNoKey(h)
  \/ \E h \in Handlers : FindLock(h)
  \/ \E h \in Handlers : FindLookup(h)
  \/ \E h \in Handlers : FindUnlock(h)
  \/ \E h \in Handlers : HitSetId(h)
  \/ \E h \in Handlers : HitWrite(h)
  \/ \E h \in Handlers, ans \in AnswerLists : ExchangeOk(h, ans)
  \/ \E h \in Handlers : ExchangeErr(h)
  \/ \E h \in Handlers : CacheSkip(h)
  \/ \E h \in Handlers : CacheNewItem(h)
  \/ \E h \in Handlers : CacheLock(h)
  \/ \E h \in Handlers : CacheInsert(h)
  \/ \E h \in Handlers : CacheUnlock(h)
  \/ \E h \in Handlers : FwdWrite(h)

Spec == Init /\ [][Next]_vars

\* One handler's own steps: everything processDNSMsg does once the listener
\* has handed it the query.
HandlerStep(h) ==
  \/ FindNoKey(h)
  \/ FindLock(h)
  \/ FindLookup(h)
  \/ FindUnlock(h)
  \/ HitSetId(h)
  \/ HitWrite(h)
  \/ \E ans \in AnswerLists : ExchangeOk(h, ans)
  \/ ExchangeErr(h)
  \/ CacheSkip(h)
  \/ CacheNewItem(h)
  \/ CacheLock(h)
  \/ CacheInsert(h)
  \/ CacheUnlock(h)
  \/ FwdWrite(h)

\* Every handler goroutine keeps being scheduled, every Exchange returns,
\* and a Lock on a free mutex is granted.
FairSpec == Spec /\ \A h \in Handlers : WF_vars(HandlerStep(h))

\* ------------------------------------------- cacheResponse called twice
\* One caller (handler 1) calls cacheResponse(q, r) and then calls it again
\* with the same pair, from every starting cache: empty, or holding one
\* entry (valid or expired) that an earlier request (handler 2) stored.
CacheableLists == {ql \in QuestionLists : ~getKey([Id |-> 1, Question |-> ql]).err}

Priors ==
  {[has |-> FALSE, ql |-> <<>>, at |-> 0, ttl |-> 0]}
    \cup [has : {TRUE}, ql : CacheableLists, at : 0..MaxTime, ttl : TTLs]

InitStore ==
  \E ql \in CacheableLists, ans \in AnswerLists \ {<<>>}, pr \in Priors :
    LET old == [timeOut |-> pr.at + pr.ttl, resp |-> 2]
        oldMsg == [Id |-> 2, Question |-> pr.ql, Answer |-> <<[Ttl |-> pr.ttl]>>,
                   From |-> <<"u", "1">>]
        oldKey == getKey([Id |-> 2, Question |-> pr.ql]).key
    IN  /\ servers = <<>>
        /\ now \in 0..MaxTime
        /\ pr.has => pr.at <= now
        /\ cache = [k \in Keys |-> IF pr.has /\ k = oldKey THEN old ELSE NoItem]
        /\ lock = NoHolder
        /\ msgs = [p \in Handlers |->
                     IF p = 1 THEN [Id |-> 1, Question |-> ql, Answer |-> ans,
                                    From |-> <<"u", "1">>]
                     ELSE IF p = 2 /\ pr.has THEN oldMsg ELSE NoMsg]
        /\ pc = [h \in Handlers |->
                   IF h = 1 THEN "cache" ELSE IF h = 2 /\ pr.has THEN "doneFwd" ELSE "idle"]
        /\ req = [h \in Handlers |->
                    IF h = 1 THEN [Id |-> 1, Question |-> ql]
                    ELSE IF h = 2 /\ pr.has THEN [Id |-> 2, Question |-> pr.ql]
                    ELSE [Id |-> 0, Question |-> <<>>]]
        /\ resp = [h \in Handlers |-> IF h = 1 \/ (h = 2 /\ pr.has) THEN h ELSE Nil]
        /\ idx = [h \in Handlers |-> 1]
        /\ item = [h \in Handlers |-> IF h = 2 /\ pr.has THEN old ELSE NoItem]
        /\ wire = [h \in Handlers |-> <<>>]
        /\ log = [h \in Handlers |-> <<>>]
        /\ mapOps = [h \in Handlers |-> <<>>]
        /\ itemAt = [h \in Handlers |-> IF h = 2 /\ pr.has THEN pr.at ELSE -1]
        /\ probe = NoProbe
        /\ boot = NoBoot

\* cacheResponse has returned once; the caller calls it again, same pair.
StoreAgain(h) ==
  /\ pc[h] = "fwdWrite"
  /\ probe.calls = 0
  /\ probe' = [calls |-> 1, once |-> cache, firstAt |-> itemAt[h]]
  /\ pc' = [pc EXCEPT ![h] = "cache"]
  /\ UNCHANGED <<boot, servers, now, cache, lock, msgs, req, resp, idx, item,
                 wire, log, mapOps, itemAt>>

NextStore ==
  \/ Tick
  \/ CacheNewItem(1)
  \/ CacheLock(1)
  \/ CacheInsert(1)
  \/ CacheUnlock(1)
  \/ StoreAgain(1)

SpecStore == InitStore /\ [][NextStore]_vars

\* ------------------------------------------- a store over an older entry
\* The cache holds an entry that an earlier request (handler 2) stored, or
\* none; handler 1 calls cacheResponse, and the client of the earlier
\* request asks its question again, before or after that store, which
\* calls findResponse.
AskAgain(h) ==
  /\ pc[h] = "doneFwd"
  /\ mapOps[h] = <<>>
  /\ pc' = [pc EXCEPT ![h] = "find"]
  /\ UNCHANGED <<boot, probe, servers, now, cache, lock, msgs, req, resp, idx, item,
                 wire, log, mapOps, itemAt>>

NextReplace ==
  \/ Tick
  \/ CacheNewItem(1)
  \/ CacheLock(1)
  \/ CacheInsert(1)
  \/ CacheUnlock(1)
  \/ AskAgain(2)
  \/ FindLock(2)
  \/ FindLookup(2)
  \/ FindUnlock(2)

SpecReplace == InitStore /\ [][NextReplace]_vars

\* ------------------------------------------------------ getKey on its own
\* Every handler has received a query and calls findResponse, which derives
\* the key: names that differ, names that contain the separator and digits,
\* question types with and without a key, any transaction id, and question
\* sections of no, one and two questions.
KeyNames == {NameA, <<"b", ".">>, <<"a", ".", "-", "2">>}

KeyTypes == {TypeA, TypeAAAA, 15}

KeyQuestions == [Name : KeyNames, Qtype : KeyTypes]

KeyQuestionLists ==
  {<<>>} \cup {<<q>> : q \in KeyQuestions}
         \cup {<<q, [Name |-> NameA, Qtype |-> TypeA]>> : q \in KeyQuestions}

KeyQueries == [Id : Handlers, Question : KeyQuestionLists]

InitKey ==
  /\ servers = NewCacheServer(<<UpstreamString(1)>>)
  /\ now = 0
  /\ cache = [k \in Keys |-> NoItem]
  /\ lock = NoHolder
  /\ msgs = [p \in Handlers |-> NoMsg]
  /\ pc = [h \in Handlers |-> "find"]
  /\ req \in [Handlers -> KeyQueries]
  /\ resp = [h \in Handlers |-> Nil]
  /\ idx = [h \in Handlers |-> 1]
  /\ item = [h \in Handlers |-> NoItem]
  /\ wire = [h \in Handlers |-> <<>>]
  /\ log = [h \in Handlers |-> <<>>]
  /\ mapOps = [h \in Handlers |-> <<>>]
  /\ itemAt = [h \in Handlers |-> -1]
  /\ probe = NoProbe
  /\ boot = NoBoot

NextKey ==
  \/ \E h \in Handlers : FindNoKey(h)
  \/ \E h \in Handlers : FindLock(h)

SpecKey == InitKey /\ [][NextKey]_vars

\* ------------------------------------------------------------- start-up
\* main: startDNSCacheServer constructs and starts the configured cache
\* instances one after the other, on the main goroutine; CacheServer.start
\* walks the instance's listen addresses. dns.HandleFunc registers on the
\* library's one default mux, which every dns.Server of the process uses,
\* and ListenAndServe returns only with an error: once bound it serves
\* inside the call until Shutdown, which this program never calls.
OtherPrefix == <<"s", "c", "t", "p", ":">>

Kinds == {"udp", "tcp", "bare", "other"}

\* The j-th listen address string of instance i, of the given kind.
ListenString(i, j, kind) ==
  (CASE kind = "udp" -> UdpPrefix
     [] kind = "tcp" -> TcpPrefix
     [] kind = "bare" -> <<>>
     [] kind = "other" -> OtherPrefix)
  \o <<"l">> \o FormatInt(i) \o <<".">> \o FormatInt(j)

KindLists == UNION {[1..m -> Kinds] : m \in 0..MaxListen}

\* The configurations of up to maxInst instances, each with up to MaxListen
\* listen addresses and its own upstream.
Configs(maxInst) ==
  UNION {{[i \in 1..n |->
             [listenAddrs |-> [j \in 1..Len(f[i]) |-> ListenString(i, j, f[i][j])],
              dnsServers |-> <<UpstreamString(i)>>]] : f \in [1..n -> KindLists]}
         : n \in 0..maxInst}

mainVars == <<servers, now, cache, lock, msgs, pc, req, resp, idx, item, wire,
              log, mapOps, itemAt, probe>>

InitStart ==
  /\ servers = <<>>
  /\ now = 0
  /\ cache = [k \in Keys |-> NoItem]
  /\ lock = NoHolder
  /\ msgs = [p \in Handlers |-> NoMsg]
  /\ pc = [h \in Handlers |-> "idle"]
  /\ req = [h \in Handlers |-> [Id |-> 0, Question |-> <<>>]]
  /\ resp = [h \in Handlers |-> Nil]
  /\ idx = [h \in Handlers |-> 1]
  /\ item = [h \in Handlers |-> NoItem]
  /\ wire = [h \in Handlers |-> <<>>]
  /\ log = [h \in Handlers |-> <<>>]
  /\ mapOps = [h \in Handlers |-> <<>>]
  /\ itemAt = [h \in Handlers |-> -1]
  /\ probe = NoProbe
  /\ boot \in {NewBoot(c) : c \in Configs(MaxInstances)}

\* `return udpServer.ListenAndServe()`: a bound listener serves inside the
\* call, which does not return.
ListenBlocks == TRUE

\* Mutant: a bind error skipped, start going on to the next address.
AfterListenError_continue == "start"

\* start after startUDPServer/startTCPServer returned an error: return err,
\* which startDNSCacheServer returns in turn.
AfterListenError == "error"

ListenAddrs == boot.config[boot.inst].listenAddrs

\* startDNSCacheServer: NewCacheServer(cache.ListenAddrs, cache.DnsServers)
\* and the call of start for the next configured instance.
Construct ==
  /\ boot.pc = "main"
  /\ boot.inst <= Len(boot.config)
  /\ boot' = [boot EXCEPT
        !.built = Append(@, NewCacheServer(boot.config[boot.inst].dnsServers)),
        !.ep = 1,
        !.pc = "start"]
  /\ UNCHANGED mainVars

\* startDNSCacheServer: the range over the instances is over; return nil.
MainReturn ==
  /\ boot.pc = "main"
  /\ boot.inst > Len(boot.config)
  /\ boot' = [boot EXCEPT !.pc = "done"]
  /\ UNCHANGED mainVars

\* start, one listen address: parse it, register the handler, and call the
\* listener of its protocol, or return the unsupported-protocol error.
StartListen ==
  /\ boot.pc = "start"
  /\ boot.ep <= Len(ListenAddrs)
  /\ LET pa == parseListenAddr(ListenAddrs[boot.ep]) IN
     boot' = IF pa.err
             THEN [boot EXCEPT !.err = "parse", !.pc = "error"]
             ELSE IF pa.proto = "udp" \/ pa.proto = "tcp"
             THEN [boot EXCEPT !.mux = boot.inst,
                               !.cur = [proto |-> pa.proto, addr |-> pa.addr],
                               !.pc = "listen"]
             ELSE [boot EXCEPT !.mux = boot.inst,
                               !.err = "unsupported", !.pc = "error"]
  /\ UNCHANGED mainVars

\* start: the range over the listen addresses is over; return nil, and
\* startDNSCacheServer goes on to the next instance.
StartReturn ==
  /\ boot.pc = "start"
  /\ boot.ep > Len(ListenAddrs)
  /\ boot' = [boot EXCEPT !.inst = @ + 1, !.pc = "main"]
  /\ UNCHANGED mainVars

Endpoint == [inst |-> boot.inst, ep |-> boot.ep,
             proto |-> boot.cur.proto, addr |-> boot.cur.addr]

\* ListenAndServe binds the address and serves.
BindOk ==
  /\ boot.pc = "listen"
  /\ boot' = [boot EXCEPT
        !.listeners = @ \cup {Endpoint},
        !.tries = Append(@, [at |-> Endpoint, ok |-> TRUE]),
        !.pc = IF ListenBlocks THEN "serving" ELSE "start",
        !.ep = IF ListenBlocks THEN @ ELSE @ + 1]
  /\ UNCHANGED mainVars

\* ListenAndServe fails to bind and returns the error.
BindFail ==
  /\ boot.pc = "listen"
  /\ boot' = [boot EXCEPT
        !.tries = Append(@, [at |-> Endpoint, ok |-> FALSE]),
        !.err = IF AfterListenError = "error" THEN "bind" ELSE @,
        !.pc = AfterListenError,
        !.ep = IF AfterListenError = "error" THEN @ ELSE @ + 1]
  /\ UNCHANGED mainVars

\* A query arrives at a serving endpoint: its dns.Server has no handler of
\* its own and hands the query to the default mux, that is to the
\* processDNSMsg (and so the cache and the upstreams) registered last.
Dispatch(l) ==
  /\ boot.pc \notin {"error", "done"}
  /\ l \in boot.listeners
  /\ [on |-> l, by |-> boot.mux] \notin boot.served
  /\ boot' = [boot EXCEPT !.served = @ \cup {[on |-> l, by |-> boot.mux]}]
  /\ UNCHANGED mainVars

StartStep ==
  \/ Construct
  \/ MainReturn
  \/ StartListen
  \/ StartReturn
  \/ BindOk
  \/ BindFail

NextStart ==
  \/ StartStep
  \/ \E l \in boot.listeners : Dispatch(l)

SpecStart == InitStart /\ [][NextStart]_vars

\* The main goroutine keeps running while it has a step to take.
FairSpecStart == SpecStart /\ WF_vars(StartStep)

\* ================================================================ claims
\* A query with no cache key, by its shape: not exactly one question of type
\* A or AAAA.
Ineligible(q) ==
  \/ Len(q.Question) # 1
  \/ (q.Question[1].Qtype # TypeA /\ q.Question[1].Qtype # TypeAAAA)

FirstTtl(p) == msgs[p].Answer[1].Ttl

Ops(h, kind) == {i \in DOMAIN mapOps[h] : mapOps[h][i].op = kind}

InMap == {"findMap", "findRet", "cacheMap", "cacheRet"}

\* ---------------------------------------------------------------------
\* C1 (TTL law, as claimed): a lookup that finds the entry stored at instant
\* T with first-answer TTL S returns that entry's reply when T <= t < T+S, and
\* returns not-found and removes the key when t >= T+S (t = T+S included).
\* The code keeps the entry at t = T+S.
C1_TTLLaw ==
  \A h \in Handlers : \A i \in Ops(h, "find") :
    LET o == mapOps[h][i]
        p == o.seen.resp
        T == itemAt[p]
        S == FirstTtl(p)
    IN  o.seen # NoItem =>
          /\ (T <= o.at /\ o.at < T + S) => (o.hit /\ o.ret = p)
          /\ (o.at >= T + S) => (~o.hit /\ o.ret = Nil /\ o.del)

\* ---------------------------------------------------------------------
\* C2 (as claimed): every reply a handler writes carries the transaction id
\* of the query that handler received. The code shares the cached message
\* between handlers and sets its Id outside the mutex.
C2_ReplyCarriesQueryId ==
  \A h \in Handlers : \A i \in DOMAIN wire[h] : wire[h][i].msg.Id = req[h].Id

\* ---------------------------------------------------------------------
\* C3 Fallback ordering: a handler calls Exchange on the upstreams in list
\* order, each at most once, and stops at the first success; what it writes
\* and what it stores is the reply of that upstream, and a handler whose
\* calls all failed has no reply, writes nothing and stores nothing.
C3_FallbackOrdering ==
  \A h \in Handlers :
    LET n == Len(log[h]) IN
    /\ n <= Len(servers)
    /\ \A j \in 1..n : log[h][j].srv = servers[j].addr
    /\ \A j \in 1..n : log[h][j].ok => j = n
    /\ pc[h] \in {"cache", "cacheLock", "cacheMap", "cacheRet", "fwdWrite", "doneFwd"}
         => n >= 1 /\ log[h][n].ok /\ resp[h] = h
    /\ msgs[h] # NoMsg
         => /\ n >= 1 /\ log[h][n].ok
            /\ msgs[h].From = servers[n].addr
            /\ msgs[h].Question = req[h].Question
    /\ (n = 0 \/ ~log[h][n].ok)
         => /\ msgs[h] = NoMsg /\ item[h] = NoItem
            /\ \A k \in Keys : cache[k].resp # h
            /\ \A i \in DOMAIN wire[h] : wire[h][i].ptr # h
    /\ pc[h] = "doneFwd"
         => /\ Len(wire[h]) = 1
            /\ wire[h][1].ptr = h
            /\ wire[h][1].msg.From = servers[n].addr
            /\ wire[h][1].msg.Answer = msgs[h].Answer
    /\ \A i \in Ops(h, "store") : mapOps[h][i].put.resp = h
    /\ item[h] # NoItem => item[h].resp = h

C3_Witness ==
  \E h \in Handlers :
    /\ pc[h] = "doneFwd"
    /\ Len(log[h]) = 2
    /\ ~log[h][1].ok
    /\ \E k \in Keys : cache[k].resp = h

\* ---------------------------------------------------------------------
\* C4 Total forwarding failure: a handler whose lookup missed and whose
\* upstreams all failed (or that has none) has called each upstream exactly
\* once, has written nothing, and from the miss on has left the map alone: it
\* stored nothing, and its only map operation is the lookup itself.
C4_TotalFailure ==
  \A h \in Handlers :
    pc[h] = "failed" =>
      /\ wire[h] = <<>>
      /\ Len(log[h]) = Len(servers)
      /\ \A j \in 1..Len(log[h]) : ~log[h][j].ok /\ log[h][j].srv = servers[j].addr
      /\ Ops(h, "store") = {}
      /\ Len(mapOps[h]) <= 1
      /\ \A k \in Keys : cache[k].resp # h
      /\ resp[h] = Nil /\ msgs[h] = NoMsg

C4_Witness ==
  \E h \in Handlers :
    /\ pc[h] = "failed"
    /\ Len(log[h]) >= 2
    /\ \E k \in Keys : Has(k)

\* ---------------------------------------------------------------------
\* C5 Cache-ineligible queries bypass the cache: the handler of a query that
\* does not have exactly one question of type A or AAAA never takes the
\* mutex, never reads or writes the map, never answers from the cache, and
\* ends only by forwarding (a reply of its own Exchange, or failure after
\* calling every upstream).
C5_IneligibleBypass ==
  \A h \in Handlers :
    (pc[h] # "idle" /\ Ineligible(req[h])) =>
      /\ pc[h] \in {"find", "exchange", "cache", "fwdWrite", "doneFwd", "failed"}
      /\ mapOps[h] = <<>>
      /\ item[h] = NoItem
      /\ lock # h
      /\ \A k \in Keys : cache[k].resp # h
      /\ resp[h] \in {Nil, h}
      /\ \A i \in DOMAIN wire[h] : wire[h][i].ptr = h
      /\ pc[h] = "failed" => Len(log[h]) = Len(servers)
      /\ pc[h] = "doneFwd" => Len(log[h]) >= 1

C5_Witness ==
  \E h \in Handlers :
    /\ pc[h] = "doneFwd"
    /\ Len(req[h].Question) = 2
    /\ Len(msgs[h].Answer) > 0
    /\ \E k \in Keys : Has(k)

\* ---------------------------------------------------------------------
\* C6 Dispatch: a handler ends in exactly one of cache hit, forward success
\* and failure, and writes at most one reply (one on a hit or a forward
\* success, none on failure); a handler whose lookup saw an entry that was
\* not yet expired answers from the cache, with the message of that entry,
\* and calls no upstream.
C6_Dispatch ==
  \A h \in Handlers :
    /\ Len(wire[h]) <= 1
    /\ Len(wire[h]) = 1 <=> pc[h] \in {"doneHit", "doneFwd"}
    /\ pc[h] = "doneHit"
         => /\ log[h] = <<>>
            /\ Ops(h, "find") = {1} /\ mapOps[h][1].hit
            /\ wire[h][1].ptr = mapOps[h][1].seen.resp
    /\ pc[h] = "doneFwd" => Len(log[h]) >= 1 /\ log[h][Len(log[h])].ok
    /\ pc[h] = "failed" => \A j \in DOMAIN log[h] : ~log[h][j].ok
    /\ \A i \in Ops(h, "find") :
         LET o == mapOps[h][i] IN
         (o.seen # NoItem /\ o.at < o.seen.timeOut) =>
            /\ o.hit
            /\ log[h] = <<>>
            /\ pc[h] \in {"findRet", "setId", "hitWrite", "doneHit"}
            /\ resp[h] = o.seen.resp

C6_Witness ==
  \E h \in Handlers :
    /\ pc[h] = "doneHit"
    /\ mapOps[h][1].at < mapOps[h][1].seen.timeOut

\* ---------------------------------------------------------------------
\* C7 cacheResponse is a no-op when the reply has no answer record or the
\* query has no key: the step that runs it leaves the whole map and the mutex
\* as they were and returns, and no handler is ever past the test of
\* cacheResponse with such a pair.
C7_Step ==
  \A h \in Handlers :
    /\ pc[h] \in {"cacheLock", "cacheMap", "cacheRet"}
         => Len(msgs[h].Answer) > 0 /\ ~Ineligible(req[h])
    /\ (pc[h] = "cache" /\ pc'[h] # "cache"
        /\ (Len(msgs[resp[h]].Answer) = 0 \/ Ineligible(req[h])))
         => /\ cache' = cache
            /\ lock' = lock
            /\ item' = item
            /\ mapOps' = mapOps
            /\ pc'[h] = "fwdWrite"

C7_CacheResponseNoOp == [][C7_Step]_vars

C7_Witness ==
  \E h \in Handlers :
    /\ pc[h] = "fwdWrite"
    /\ Len(msgs[h].Answer) = 0
    /\ ~Ineligible(req[h])
    /\ Has(getKey(req[h]).key)
    /\ mapOps[h][1].seen = NoItem

\* ---------------------------------------------------------------------
\* C8 (as claimed): calling cacheResponse(q, r) twice leaves the cache equal
\* to the cache after the first call, the expiry included. The second call
\* reads the clock again.
C8_SameAsOnce ==
  (pc[1] = "fwdWrite" /\ probe.calls = 1) => cache = probe.once

\* C8 (amended): after the second call every other key is as after the
\* first, q's key holds one entry with reply r in both, and each call set the
\* expiry to its own instant plus the TTL of r's first answer; so the two
\* caches are equal when the clock did not advance between the calls, and
\* differ only in that expiry otherwise.
C8_StoreTwice ==
  (pc[1] = "fwdWrite" /\ probe.calls = 1) =>
    LET k == getKey(req[1]).key IN
    /\ \A j \in Keys \ {k} : cache[j] = probe.once[j]
    /\ cache[k].resp = 1 /\ probe.once[k].resp = 1
    /\ probe.once[k].timeOut = probe.firstAt + FirstTtl(1)
    /\ cache[k].timeOut = itemAt[1] + FirstTtl(1)
    /\ itemAt[1] >= probe.firstAt
    /\ itemAt[1] = probe.firstAt => cache = probe.once

C8_Witness ==
  /\ pc[1] = "fwdWrite"
  /\ probe.calls = 1
  /\ cache # probe.once
  /\ \E j \in Keys \ {getKey(req[1]).key} : Has(j)

\* ---------------------------------------------------------------------
\* C9 Concurrency safety of the map: a handler inside a map operation holds
\* the mutex, at most one handler is inside one, every map operation was made
\* by the holder, and every entry in the map or seen by a lookup is whole:
\* the item one store built, its reply together with the expiry computed for
\* that reply, under that reply's key.
WholeItem(k, it) ==
  LET p == it.resp IN
  /\ p \in Handlers
  /\ it = item[p]
  /\ msgs[p] # NoMsg /\ Len(msgs[p].Answer) > 0
  /\ it.timeOut = itemAt[p] + FirstTtl(p)
  /\ getKey(req[p]).key = k

C9_MapSafety ==
  /\ \A h \in Handlers : pc[h] \in InMap => lock = h
  /\ Cardinality({h \in Handlers : pc[h] \in InMap}) <= 1
  /\ \A h \in Handlers : \A i \in DOMAIN mapOps[h] :
       /\ mapOps[h][i].holder = h
       /\ mapOps[h][i].seen # NoItem => WholeItem(mapOps[h][i].key, mapOps[h][i].seen)
  /\ \A k \in Keys : Has(k) => WholeItem(k, cache[k])

C9_Witness ==
  \E h, g \in Handlers :
    /\ h # g
    /\ pc[h] = "cacheRet"
    /\ pc[g] = "cacheLock"
    /\ ~Ineligible(req[g])
    /\ getKey(req[g]).key = getKey(req[h]).key
    /\ Has(getKey(req[h]).key)

\* ---------------------------------------------------------------------
\* C10 The mutex is held only inside one lookup or one insert: never by a
\* handler that is in Exchange, sets the id or writes a reply; so whenever no
\* handler is inside a map operation the mutex is free, whoever is blocked
\* on an upstream.
C10_LockScope ==
  /\ \A h \in Handlers : lock = h => pc[h] \in InMap
  /\ lock # NoHolder => lock \in Handlers
  /\ (\A h \in Handlers : pc[h] \notin InMap) => lock = NoHolder

C10_Witness ==
  \E h, g \in Handlers :
    /\ h # g
    /\ pc[h] = "exchange"
    /\ Len(log[h]) = 1
    /\ pc[g] = "findRet"
    /\ lock = g
    /\ Len(mapOps[g]) = 1

\* ---------------------------------------------------------------------
\* C11 (as claimed) Start-up liveness: unless a listener fails to bind, every
\* configured listen endpoint of every instance is eventually listening.
\* The code starts the endpoints on the main goroutine, and the first
\* listener that binds never returns.
AllListening ==
  \A i \in DOMAIN boot.config : \A j \in DOMAIN boot.config[i].listenAddrs :
    \E l \in boot.listeners : l.inst = i /\ l.ep = j

BindFailed == \E k \in DOMAIN boot.tries : ~boot.tries[k].ok

C11_StartupLiveness == <>(BindFailed \/ AllListening)

\* ---------------------------------------------------------------------
\* C12 Fail-fast start-up: a ListenAndServe that fails is the last one
\* called: start returns its error and startDNSCacheServer returns it, no
\* endpoint after the failed one is started, no later instance is
\* constructed, and every listener started before it is still listening.
Before(l, a) == l.inst < a.inst \/ (l.inst = a.inst /\ l.ep < a.ep)

C12_FailFast ==
  LET n == Len(boot.tries) IN
  /\ \A k \in 1..n :
       ~boot.tries[k].ok => k = n /\ boot.pc = "error" /\ boot.err = "bind"
  /\ (boot.pc = "error" /\ boot.err = "bind") =>
       /\ n >= 1 /\ ~boot.tries[n].ok
       /\ boot.tries[n].at.inst = boot.inst /\ boot.tries[n].at.ep = boot.ep
       /\ Len(boot.built) = boot.inst
       /\ \A l \in boot.listeners : Before(l, boot.tries[n].at)
       /\ \A k \in 1..(n - 1) : boot.tries[k].at \in boot.listeners

C12_Witness ==
  /\ boot.pc = "error"
  /\ boot.err = "bind"
  /\ Len(boot.config) = 2
  /\ Len(boot.config[boot.inst].listenAddrs) = 2
  /\ boot.ep = 1
  /\ Len(boot.config[2].listenAddrs) >= 1

\* ---------------------------------------------------------------------
\* C13 Instance isolation, as far as the program reaches it: every query
\* that arrived at an endpoint of instance I was served by the processDNSMsg
\* of I, the CacheServer constructed for I with I's upstream list. The
\* handler is the one registered last on the library's process-wide mux;
\* C13_OneRegistrant shows why that is always the endpoint's own instance:
\* in every reachable state at most one instance has registered a handler
\* and at most one listener serves, so no state has two registrations in
\* any order.
C13_InstanceIsolation ==
  /\ \A d \in boot.served :
       /\ d.by = d.on.inst
       /\ d.by \in DOMAIN boot.built
       /\ boot.built[d.by] = NewCacheServer(boot.config[d.on.inst].dnsServers)
  /\ \A l \in boot.listeners : boot.mux = l.inst

C13_OneRegistrant ==
  /\ Cardinality(boot.listeners) <= 1
  /\ Len(boot.tries) <= 1
  /\ boot.mux # 0 => /\ boot.mux = boot.inst
                     /\ boot.ep = 1
                     /\ \A i \in 1..(boot.inst - 1) : boot.config[i].listenAddrs = <<>>

\* ---------------------------------------------------------------------
\* C20 (as claimed): a listen address whose transport token is neither udp
\* nor tcp makes start return the unsupported-protocol error, with no
\* listener started for it. parseListenAddr gives every such address the
\* protocol udp, so the code calls the UDP listener with the whole string.
OtherToken(str) == HasPrefix(str, OtherPrefix)

C20_UnsupportedRejected ==
  (/\ boot.pc \in {"listen", "serving", "error"}
   /\ OtherToken(boot.config[boot.inst].listenAddrs[boot.ep]))
    => /\ boot.pc = "error"
       /\ boot.err = "unsupported"
       /\ \A k \in DOMAIN boot.tries :
            boot.tries[k].at.inst # boot.inst \/ boot.tries[k].at.ep # boot.ep

\* ---------------------------------------------------------------------
\* C14 Accepted miss race: when two requests for the same key both miss and
\* both store, the earlier item is nowhere in the map and the key's entry is
\* the item of the later store (the store that saw the other's item, or
\* whose lookup deleted it) as long as nothing stored over it or found it
\* expired; and in every state the reply of every entry is the message a
\* successful Exchange returned for a query with that key.
StoreOp(h) == mapOps[h][CHOOSE i \in Ops(h, "store") : TRUE]

FindOp(h) == mapOps[h][CHOOSE i \in Ops(h, "find") : TRUE]

StoredAfter(g, h) ==
  \/ StoreOp(g).seen = StoreOp(h).put
  \/ (FindOp(g).del /\ FindOp(g).seen = StoreOp(h).put)

LastStore(g) ==
  \A f \in Handlers \ {g} :
    /\ \A i \in Ops(f, "find") : ~(mapOps[f][i].del /\ mapOps[f][i].seen = StoreOp(g).put)
    /\ Ops(f, "store") # {} => StoreOp(f).seen # StoreOp(g).put

ValidUpstreamReply(k, p) ==
  /\ p \in Handlers
  /\ msgs[p] # NoMsg
  /\ Len(log[p]) >= 1
  /\ log[p][Len(log[p])].ok
  /\ log[p][Len(log[p])].srv = msgs[p].From
  /\ msgs[p].Question = req[p].Question
  /\ ~getKey(req[p]).err
  /\ getKey(req[p]).key = k

C14_MissRace ==
  /\ \A k \in Keys : Has(k) => ValidUpstreamReply(k, cache[k].resp)
  /\ \A h \in Handlers : \A g \in Handlers \ {h} :
       (/\ Ops(h, "store") # {} /\ Ops(g, "store") # {}
        /\ StoreOp(h).key = StoreOp(g).key
        /\ StoredAfter(g, h))
         => /\ \A k \in Keys : cache[k] # StoreOp(h).put
            /\ LastStore(g) => cache[StoreOp(g).key] = StoreOp(g).put

C14_Witness ==
  /\ \A h \in Handlers : /\ Ops(h, "store") # {}
                         /\ ~FindOp(h).hit /\ ~FindOp(h).del
                         /\ pc[h] = "doneFwd"
  /\ StoreOp(1).key = StoreOp(2).key
  /\ StoreOp(1).seen = StoreOp(2).put
  /\ cache[StoreOp(1).key].resp = 1

\* ---------------------------------------------------------------------
\* C15 Reply integrity: what a handler writes is, apart from the Id, the
\* message its pointer names: on a hit the message of the entry the lookup
\* found for the query's key, on the forward path the message its own
\* Exchange returned; and no step changes the question, the answers or the
\* origin of a message once an Exchange has returned it.
Body(m) == [Question |-> m.Question, Answer |-> m.Answer, From |-> m.From]

C15_Written ==
  \A h \in Handlers : \A i \in DOMAIN wire[h] :
    LET w == wire[h][i] IN
    /\ Body(w.msg) = Body(msgs[w.ptr])
    /\ pc[h] = "doneHit" =>
         /\ FindOp(h).hit
         /\ w.ptr = FindOp(h).seen.resp
         /\ getKey(w.msg).key = getKey(req[h]).key
    /\ pc[h] = "doneFwd" =>
         /\ w.ptr = h
         /\ w.msg.Question = req[h].Question
         /\ w.msg.From = log[h][Len(log[h])].srv

C15_Unchanged ==
  \A p \in Handlers :
    msgs[p] # NoMsg => Body(msgs'[p]) = Body(msgs[p])

C15_ReplyIntegrity == [](C15_Written) /\ [][C15_Unchanged]_vars

C15_Witness ==
  \E h \in Handlers : \E g \in Handlers \ {h} :
    /\ pc[h] = "doneHit" /\ pc[g] = "doneFwd"
    /\ wire[h][1].ptr = g
    /\ Len(wire[g]) = 1
    /\ Len(msgs[g].Answer) = 2

\* ---------------------------------------------------------------------
\* C17 Frame and lazy expiry: a step changes the map only when it is the
\* map assignment of a cacheResponse whose query has a key and whose reply
\* has an answer, and then only that key, or the lookup of a findResponse
\* that finds its key's entry expired, and then it removes only that key.
\* A tick, a hit, a lookup of another key, a failed forward change nothing.
C17_StoreStep(h) ==
  /\ pc[h] = "cacheMap" /\ pc'[h] = "cacheRet"
  /\ ~Ineligible(req[h]) /\ Len(msgs[resp[h]].Answer) > 0
  /\ cache' = [cache EXCEPT ![getKey(req[h]).key] = item[h]]

C17_ExpiredLookupStep(h) ==
  /\ pc[h] = "findMap" /\ pc'[h] = "findRet"
  /\ Has(getKey(req[h]).key)
  /\ now > cache[getKey(req[h]).key].timeOut
  /\ cache' = [cache EXCEPT ![getKey(req[h]).key] = NoItem]

C17_Step ==
  cache' # cache => \E h \in Handlers : C17_StoreStep(h) \/ C17_ExpiredLookupStep(h)

C17_FrameLazyExpiry == [][C17_Step]_vars

C17_Witness ==
  \E k \in Keys : \E g \in Handlers :
    /\ Has(k)
    /\ now > cache[k].timeOut
    /\ Ops(g, "find") # {}
    /\ FindOp(g).key # k
    /\ FindOp(g).at > cache[k].timeOut
    /\ pc[g] = "failed"

\* ---------------------------------------------------------------------
\* C16 Key derivation: getKey gives a key exactly to the queries with one
\* question of type A or AAAA, and findResponse goes on to the map only for
\* those; two such queries have the same key exactly when their question
\* names and their question types are equal, whatever their ids.
C16_KeyDerivation ==
  /\ \A h \in Handlers :
       /\ ~getKey(req[h]).err <=>
            (/\ Len(req[h].Question) = 1
             /\ req[h].Question[1].Qtype \in {TypeA, TypeAAAA})
       /\ pc[h] = "findMap" => ~Ineligible(req[h])
       /\ pc[h] = "exchange" => Ineligible(req[h])
  /\ \A h \in Handlers : \A g \in Handlers :
       (~Ineligible(req[h]) /\ ~Ineligible(req[g])) =>
          (getKey(req[h]).key = getKey(req[g]).key
             <=> (/\ req[h].Question[1].Name = req[g].Question[1].Name
                  /\ req[h].Question[1].Qtype = req[g].Question[1].Qtype))

C16_Witness ==
  /\ pc[1] = "findMap"
  /\ pc[2] = "find"
  /\ req[2].Id # req[1].Id
  /\ ~getKey(req[2]).err
  /\ getKey(req[2]).key = getKey(req[1]).key
  /\ req[1].Question[1].Name = <<"a", ".", "-", "2">>

\* ---------------------------------------------------------------------
\* C18 Insert-or-replace: the item a cacheResponse puts under a key points
\* to the new reply and expires at the instant the call read the clock plus
\* the TTL of the reply's first answer, whatever entry the key had (none,
\* valid, expired, expiring later); that item is the key's entry until a
\* lookup finds it expired, and a lookup of the key before its expiry
\* returns the new reply.
C18_InsertOrReplace ==
  Ops(1, "store") # {} =>
    LET s == StoreOp(1) IN
    /\ s.put = [timeOut |-> itemAt[1] + msgs[1].Answer[1].Ttl, resp |-> 1]
    /\ itemAt[1] <= s.at
    /\ (\A i \in Ops(2, "find") : ~(mapOps[2][i].del /\ mapOps[2][i].seen.resp = 1))
         => cache[s.key] = s.put
    /\ \A i \in Ops(2, "find") :
         LET f == mapOps[2][i] IN
         (f.key = s.key /\ f.seen.resp = 1) =>
            /\ f.seen = s.put
            /\ f.at < s.put.timeOut => f.hit /\ f.ret = 1 /\ ~f.del

C18_Witness ==
  /\ Ops(1, "store") # {} /\ Ops(2, "find") # {}
  /\ StoreOp(1).seen.resp = 2
  /\ StoreOp(1).seen.timeOut > StoreOp(1).put.timeOut
  /\ FindOp(2).hit
  /\ FindOp(2).ret = 1
  /\ FindOp(2).key = StoreOp(1).key

\* ---------------------------------------------------------------------
\* C19 Lock release and handler termination: the mutex is held only inside
\* findResponse and cacheResponse; and from some point on the mutex is free
\* and every handler that received a query has returned (hit written, reply
\* forwarded, or every upstream failed), so none waits for the mutex forever.
Returned == {"doneHit", "doneFwd", "failed"}

C19_LockReleaseTermination ==
  /\ [](\A h \in Handlers : lock = h => pc[h] \in InMap)
  /\ <>[](/\ lock = NoHolder
          /\ \A h \in Handlers : pc[h] = "idle" \/ pc[h] \in Returned)

C19_Witness ==
  /\ \A h \in Handlers : pc[h] \in Returned
  /\ lock = NoHolder
  /\ pc[1] = "doneFwd" /\ Ops(1, "store") # {}
  /\ Ops(2, "find") # {}
  /\ FindOp(2).del
  /\ pc[2] = "failed"

====
